---- MODULE Spec2Model ----
(***************************************************************************)
(* Tree search (src/tree_search.py) over the road-network domain           *)
(* (src/cidades.py).  One SearchTree is built for a problem drawn in Init  *)
(* and search(limit) is called on it; every iteration of the while loop of *)
(* search() is one step of the state machine.                              *)
(*                                                                         *)
(* Encodings: Python's None is "None" for a city, <<>> for an action and   *)
(* for the optional limit (a given limit L is <<L>>), 0 for a parent       *)
(* reference and -1 for the value of Cidades.cost.  SearchNode objects     *)
(* live in the sequence `nodes`; a node reference is its index there.      *)
(***************************************************************************)
EXTENDS Integers, Sequences, FiniteSets, TLC

\* ------------------------------------------------------------------ bounds
\* longest generated list of connections
MaxConn == 3
\* largest depth limit passed to search()
MaxLimit == 1
\* calls of search() made on one tree
MaxCalls == 2
\* SearchNode objects one tree may hold (never reached by the program here)
MaxNodes == 12

\* ------------------------------------------------------------ input space
Cities == {"A", "B", "C", "D"}
Strategies == {"breadth", "depth", "uniform", "greedy", "a*"}
\* a strategy name add_to_open does not know (the spec's enum name for a*)
Unrecognised == {"a_star"}
Limits == {<<>>} \cup {<<l>> : l \in 0..MaxLimit}

\* the generated networks list up to MaxConn of these roads, each at most
\* once, in any order and with either length
Roads == {<<"A", "B">>, <<"A", "C">>, <<"B", "C">>, <<"C", "D">>}
Costs == {1, 3}
ConnUniverse == {<<r[1], r[2], d>> : r \in Roads, d \in Costs}
GenConnections ==
    UNION {{cn \in [1..k -> ConnUniverse] :
                \A i, j \in 1..k : i # j => <<cn[i][1], cn[i][2]>> # <<cn[j][1], cn[j][2]>>} :
           k \in 0..MaxConn}

\* the chain A-B(10)-C(20)-D(5), the same with the shortcut A-D(50) listed
\* first, a triangle with zero-length roads, a road from a city to itself, a
\* road listed twice with two lengths, and a triangle with a road out of B
Chain == <<<<"A", "B", 10>>, <<"B", "C", 20>>, <<"C", "D", 5>>>>
ChainShortcut == <<<<"A", "D", 50>>>> \o Chain
ZeroTriangle == <<<<"A", "C", 1>>, <<"A", "B", 0>>, <<"B", "C", 0>>>>
SelfLoop == <<<<"A", "A", 1>>, <<"A", "B", 1>>>>
TwiceListed == <<<<"A", "B", 3>>, <<"B", "A", 1>>, <<"B", "C", 1>>, <<"A", "C", 3>>>>
Fork == <<<<"A", "B", 1>>, <<"A", "C", 1>>, <<"B", "C", 1>>, <<"B", "D", 1>>>>
FixtureConnections == {Chain, ChainShortcut, ZeroTriangle, SelfLoop, TwiceListed, Fork}

\* city coordinates: every city at the origin (heuristic 0 everywhere), or
\* A, B, C on the corners of a 3-4-5 triangle (every distance is an integer)
Flat == [c \in Cities |-> <<0, 0>>]
Corners == {<<0, 0>>, <<3, 0>>, <<0, 4>>}
Placed == {c \in [Cities -> Corners] :
             /\ c["D"] = <<0, 0>>
             /\ Cardinality({c["A"], c["B"], c["C"]}) = 3}

\* A, B, C placed with C at the origin, and roads no shorter than the
\* straight-line distance left to C: A-C(6) listed first, A-B(2), B-C(3)
Triangle == [c \in Cities |-> IF c = "A" THEN <<0, 4>>
                              ELSE IF c = "B" THEN <<3, 0>> ELSE <<0, 0>>]
Weighted == <<<<"A", "C", 6>>, <<"A", "B", 2>>, <<"B", "C", 3>>>>

Problems ==
    {[connections |-> cn, coordinates |-> Flat, initial |-> "A", goal |-> g, strategy |-> s] :
        cn \in GenConnections, g \in {"A", "C", "D"}, s \in Strategies}
    \cup
    {[connections |-> cn, coordinates |-> co, initial |-> "A", goal |-> "C", strategy |-> s] :
        cn \in GenConnections, co \in Placed, s \in {"greedy", "a*"}}
    \cup
    {[connections |-> cn, coordinates |-> Flat, initial |-> i, goal |-> g, strategy |-> s] :
        cn \in FixtureConnections, i \in {"A", "D"}, g \in Cities, s \in Strategies}
    \cup
    {[connections |-> Weighted, coordinates |-> Triangle, initial |-> i, goal |-> "C",
      strategy |-> s] : i \in {"A", "B"}, s \in Strategies}
    \cup
    {[connections |-> cn, coordinates |-> Flat, initial |-> "A", goal |-> g, strategy |-> s] :
        cn \in GenConnections, g \in {"A", "C"}, s \in Unrecognised}

\* ------------------------------------------------------------------ state
VARIABLES
    connections,      \* Cidades.connections
    coordinates,      \* Cidades.coordinates
    initial,          \* SearchProblem.initial
    goal,             \* SearchProblem.goal
    strategy,         \* SearchTree.strategy
    nodes,            \* every SearchNode the tree holds
    open_nodes,       \* SearchTree.open_nodes
    solution,         \* SearchTree.solution
    terminals,        \* SearchTree.terminals
    non_terminals,    \* SearchTree.non_terminals
    high_cost_nodes,  \* SearchTree.high_cost_nodes
    avg_depth,        \* SearchTree.avg_depth, as <<numerator, denominator>>
    pc,               \* "idle": no call of search() is running; "loop": in its while loop
    limit,            \* the limit argument of the running (or last) call
    node,             \* the local `node` of search(): the node popped last
    ret,              \* what the last call returned: "unset", "path" or "none"
    path,             \* the path the last call returned
    calls,            \* calls of search() made so far
    popped_nodes,     \* history: the nodes search() has popped, in pop order
    branching_read    \* what reading avg_branching gave since the last call

vars == <<connections, coordinates, initial, goal, strategy, nodes, open_nodes,
          solution, terminals, non_terminals, high_cost_nodes, avg_depth,
          pc, limit, node, ret, path, calls, popped_nodes, branching_read>>

problem == <<connections, coordinates, initial, goal, strategy>>

\* ------------------------------------------------------- Cidades (domain)
RECURSIVE ActionsScan(_, _, _)
ActionsScan(conns, city, i) ==
    IF i > Len(conns) THEN <<>>
    ELSE LET C1 == conns[i][1]
             C2 == conns[i][2]
             here == IF C1 = city THEN <<<<C1, C2>>>>
                     ELSE IF C2 = city THEN <<<<C2, C1>>>>
                     ELSE <<>>
         IN  here \o ActionsScan(conns, city, i + 1)

actions(conns, city) == ActionsScan(conns, city, 1)

result(city, action) == IF action[1] = city THEN action[2] ELSE "None"

RECURSIVE CostScan(_, _, _)
CostScan(conns, action, i) ==
    IF i > Len(conns) THEN -1
    ELSE LET C1 == conns[i][1]
             C2 == conns[i][2]
         IN  IF action \in {<<C1, C2>>, <<C2, C1>>} THEN conns[i][3]
             ELSE CostScan(conns, action, i + 1)

cost(conns, city, action) == CostScan(conns, action, 1)

Abs(x) == IF x < 0 THEN -x ELSE x

\* math.hypot on the coordinate differences the model draws, all of which
\* have an integer length
hypot(x, y) == CHOOSE r \in 0..(x + y) : r * r = x * x + y * y

heuristic(coords, city, goal_city) ==
    LET x == Abs(coords[city][1] - coords[goal_city][1])
        y == Abs(coords[city][2] - coords[goal_city][2])
    IN  hypot(x, y)

satisfies(city, goal_city) == goal_city = city

\* ---------------------------------------------------------- SearchProblem
\* goal_test that no state passes
goal_test_never(state) == FALSE

goal_test(state) == satisfies(state, goal)

\* ------------------------------------------------------------- SearchNode
SearchNode(state, parent, depth, c, h, action) ==
    [state |-> state, parent |-> parent, depth |-> depth, cost |-> c,
     heuristic |-> h, action |-> action]

\* in_parent answering True instead of False once it reaches the root
RECURSIVE in_parent_root_true(_, _, _)
in_parent_root_true(ns, n, state) ==
    IF ns[n].state = state THEN TRUE
    ELSE IF ns[n].parent = 0 THEN TRUE
    ELSE in_parent_root_true(ns, ns[n].parent, state)

\* in_parent comparing the state with the node's own state only
in_parent_self_only(ns, n, state) == ns[n].state = state

\* in_parent never finding the state
in_parent_never(ns, n, state) == FALSE

RECURSIVE in_parent(_, _, _)
in_parent(ns, n, state) ==
    IF ns[n].state = state THEN TRUE
    ELSE IF ns[n].parent = 0 THEN FALSE
    ELSE in_parent(ns, ns[n].parent, state)

\* ------------------------------------------------------------- SearchTree
\* get_path putting each node's state in front of its ancestors' states
RECURSIVE get_path_leaf_first(_, _)
get_path_leaf_first(ns, n) ==
    IF ns[n].parent = 0 THEN <<ns[n].state>>
    ELSE <<ns[n].state>> \o get_path_leaf_first(ns, ns[n].parent)

RECURSIVE get_path(_, _)
get_path(ns, n) ==
    IF ns[n].parent = 0 THEN <<ns[n].state>>
    ELSE get_path(ns, ns[n].parent) \o <<ns[n].state>>

\* get_plan starting from the root's own action (None) instead of []
RECURSIVE get_plan_with_root(_, _)
get_plan_with_root(ns, n) ==
    IF ns[n].parent = 0 THEN <<ns[n].action>>
    ELSE get_plan_with_root(ns, ns[n].parent) \o <<ns[n].action>>

RECURSIVE get_plan(_, _)
get_plan(ns, n) ==
    IF ns[n].parent = 0 THEN <<>>
    ELSE get_plan(ns, ns[n].parent) \o <<ns[n].action>>

\* round(a / n, 2) in hundredths, for integers a >= 0 and n > 0: the nearest
\* hundredth, a tie going to the even one (a tie needs n to be a multiple
\* of 8, and a / 8 is exact in binary floating point)
round2(a, n) ==
    LET q == (100 * a) \div n
        r == (100 * a) % n
    IN  IF 2 * r < n THEN q
        ELSE IF 2 * r > n THEN q + 1
        ELSE IF q % 2 = 0 THEN q ELSE q + 1

\* avg_branching that answers 0 where the division is by zero
avg_branching_guarded(terms, non_terms) ==
    IF non_terms = 0 THEN [raised |-> "none", value |-> 0]
    ELSE [raised |-> "none", value |-> round2(terms + non_terms - 1, non_terms)]

\* the avg_branching property: the division raises when non_terminals is 0
avg_branching(terms, non_terms) ==
    IF non_terms = 0 THEN [raised |-> "ZeroDivisionError", value |-> 0]
    ELSE [raised |-> "none", value |-> round2(terms + non_terms - 1, non_terms)]

\* sorted whose result keeps the order it was given
sorted_unsorted(seq, key) == seq

\* sorted that puts the later of two elements of equal key first
sorted_ties_reversed(seq, key) ==
    LET Before(k, j) == \/ key[seq[k]] < key[seq[j]]
                        \/ (key[seq[k]] = key[seq[j]] /\ k > j)
        Rank(j) == Cardinality({k \in 1..Len(seq) : Before(k, j)}) + 1
    IN  [i \in 1..Len(seq) |-> seq[CHOOSE j \in 1..Len(seq) : Rank(j) = i]]

\* sorted(seq, key=...): ascending by key and stable, so an element comes
\* behind exactly the elements of smaller key and the earlier ones of equal key
sorted(seq, key) ==
    LET Before(k, j) == \/ key[seq[k]] < key[seq[j]]
                        \/ (key[seq[k]] = key[seq[j]] /\ k < j)
        Rank(j) == Cardinality({k \in 1..Len(seq) : Before(k, j)}) + 1
    IN  [i \in 1..Len(seq) |-> seq[CHOOSE j \in 1..Len(seq) : Rank(j) = i]]

\* add_to_open pushing the new nodes to the front one by one under 'depth',
\* which leaves the last child at the head
add_to_open_pushed(strat, ns, open, lnewnodes) ==
    IF strat = "breadth" THEN open \o lnewnodes
    ELSE IF strat = "depth"
        THEN [i \in 1..Len(lnewnodes) |-> lnewnodes[Len(lnewnodes) + 1 - i]] \o open
    ELSE open \o lnewnodes

\* add_to_open putting the new nodes in front whatever the strategy
add_to_open_prepend(strat, ns, open, lnewnodes) == lnewnodes \o open

\* add_to_open appending the new nodes whatever the strategy
add_to_open_append(strat, ns, open, lnewnodes) == open \o lnewnodes

add_to_open(strat, ns, open, lnewnodes) ==
    IF strat = "breadth" THEN open \o lnewnodes
    ELSE IF strat = "depth" THEN lnewnodes \o open
    ELSE IF strat = "uniform"
        THEN sorted(open \o lnewnodes, [n \in 1..Len(ns) |-> ns[n].cost])
    ELSE IF strat = "greedy"
        THEN sorted(open \o lnewnodes, [n \in 1..Len(ns) |-> ns[n].heuristic])
    ELSE IF strat = "a*"
        THEN sorted(open \o lnewnodes, [n \in 1..Len(ns) |-> ns[n].heuristic + ns[n].cost])
    ELSE open

\* the children built with the cost of the last action alone
NewNodes_step_cost(ns, n) ==
    LET acts == actions(connections, ns[n].state)
    IN  [i \in 1..Len(acts) |->
            LET newstate == result(ns[n].state, acts[i])
            IN  SearchNode(newstate, n, ns[n].depth + 1,
                           cost(connections, ns[n].state, acts[i]),
                           heuristic(coordinates, newstate, goal), acts[i])]

\* the children search() builds for node n, one per action, in action order
NewNodes(ns, n) ==
    LET acts == actions(connections, ns[n].state)
    IN  [i \in 1..Len(acts) |->
            LET newstate == result(ns[n].state, acts[i])
            IN  SearchNode(newstate, n, ns[n].depth + 1,
                           ns[n].cost + cost(connections, ns[n].state, acts[i]),
                           heuristic(coordinates, newstate, goal), acts[i])]

\* the filter comparing the limit with the depth of the expanded node
Kept_parent_depth(ns, n, lim, newnode) ==
    /\ ~in_parent(ns, n, newnode.state)
    /\ (lim = <<>> \/ ns[n].depth <= lim[1])

\* the filter of search(): not on the ancestor chain and within the limit
Kept(ns, n, lim, newnode) ==
    /\ ~in_parent(ns, n, newnode.state)
    /\ (lim = <<>> \/ newnode.depth <= lim[1])

lnewnodes(ns, n, lim) ==
    SelectSeq(NewNodes(ns, n), LAMBDA newnode : Kept(ns, n, lim, newnode))

\* the comparison of the popped node with high_cost_nodes[0]
HighCost(ns, high, n) ==
    IF ns[n].cost > ns[high[1]].cost THEN <<n>>
    ELSE IF ns[n].cost = ns[high[1]].cost THEN Append(high, n)
    ELSE high

\* --------------------------------------------------------------- actions
Construct(problems) ==
    /\ \E p \in problems :
          /\ connections = p.connections
          /\ coordinates = p.coordinates
          /\ initial = p.initial
          /\ goal = p.goal
          /\ strategy = p.strategy
          /\ nodes = <<SearchNode(p.initial, 0, 0, 0,
                                  heuristic(p.coordinates, p.initial, p.goal), <<>>)>>
    /\ open_nodes = <<1>>
    /\ solution = 0
    /\ terminals = 1
    /\ non_terminals = 0
    /\ high_cost_nodes = <<1>>
    /\ avg_depth = <<0, 1>>
    /\ pc = "idle"
    /\ limit = <<>>
    /\ node = 0
    /\ ret = "unset"
    /\ path = <<>>
    /\ calls = 0
    /\ popped_nodes = <<>>
    /\ branching_read = [raised |-> "unread", value |-> 0]

Init == Construct(Problems)

\* search(limit) is called
SearchCall ==
    /\ pc = "idle"
    /\ calls < MaxCalls
    /\ \E l \in Limits : limit' = l
    /\ pc' = "loop"
    /\ calls' = calls + 1
    /\ ret' = "unset"
    /\ path' = <<>>
    /\ branching_read' = [raised |-> "unread", value |-> 0]
    /\ UNCHANGED <<problem, nodes, open_nodes, solution, terminals, non_terminals,
                   high_cost_nodes, avg_depth, node, popped_nodes>>

\* the goal iteration counting only the nodes left in open_nodes as terminals
SearchGoal_open_only ==
    /\ pc = "loop"
    /\ open_nodes # <<>>
    /\ goal_test(nodes[Head(open_nodes)].state)
    /\ LET popped == Head(open_nodes)
           rest == Tail(open_nodes)
       IN  /\ node' = popped
           /\ open_nodes' = rest
           /\ high_cost_nodes' = HighCost(nodes, high_cost_nodes, popped)
           /\ terminals' = Len(rest)
           /\ solution' = popped
           /\ avg_depth' = <<nodes[popped].depth, Len(rest) + 1 + non_terminals>>
           /\ ret' = "path"
           /\ path' = get_path(nodes, popped)
           /\ popped_nodes' = Append(popped_nodes, popped)
    /\ pc' = "idle"
    /\ UNCHANGED <<problem, nodes, non_terminals, limit, calls, branching_read>>

\* one iteration that pops a node satisfying the goal: search() returns its path
SearchGoal ==
    /\ pc = "loop"
    /\ open_nodes # <<>>
    /\ goal_test(nodes[Head(open_nodes)].state)
    /\ LET popped == Head(open_nodes)
           rest == Tail(open_nodes)
       IN  /\ node' = popped
           /\ open_nodes' = rest
           /\ high_cost_nodes' = HighCost(nodes, high_cost_nodes, popped)
           /\ terminals' = Len(rest) + 1
           /\ solution' = popped
           /\ avg_depth' = <<nodes[popped].depth, Len(rest) + 1 + non_terminals>>
           /\ ret' = "path"
           /\ path' = get_path(nodes, popped)
           /\ popped_nodes' = Append(popped_nodes, popped)
    /\ pc' = "idle"
    /\ UNCHANGED <<problem, nodes, non_terminals, limit, calls, branching_read>>

\* one iteration that pops a node not satisfying the goal and expands it
\* (the comparison with MaxNodes caps the model; see NodesBelowCap)
SearchExpand ==
    /\ pc = "loop"
    /\ open_nodes # <<>>
    /\ ~goal_test(nodes[Head(open_nodes)].state)
    /\ \E popped \in {Head(open_nodes)}, rest \in {Tail(open_nodes)} :
       \E new \in {lnewnodes(nodes, popped, limit)} :
       \E ids \in {[i \in 1..Len(new) |-> Len(nodes) + i]}, grown \in {nodes \o new} :
           /\ Len(grown) <= MaxNodes
           /\ node' = popped
           /\ high_cost_nodes' = HighCost(nodes, high_cost_nodes, popped)
           /\ non_terminals' = non_terminals + 1
           /\ nodes' = grown
           /\ open_nodes' = add_to_open(strategy, grown, rest, ids)
           /\ popped_nodes' = Append(popped_nodes, popped)
    /\ UNCHANGED <<problem, solution, terminals, avg_depth, pc, limit, ret, path, calls,
                   branching_read>>

\* the while loop ends on an empty open list: search() returns None
SearchFail ==
    /\ pc = "loop"
    /\ open_nodes = <<>>
    /\ ret' = "none"
    /\ pc' = "idle"
    /\ UNCHANGED <<problem, nodes, open_nodes, solution, terminals, non_terminals,
                   high_cost_nodes, avg_depth, limit, node, path, calls, popped_nodes,
                   branching_read>>

\* the avg_branching property is read while no call of search() is running:
\* the read raises or gives a value, and assigns nothing in the tree
AvgBranching ==
    /\ pc = "idle"
    /\ branching_read.raised = "unread"
    /\ branching_read' = avg_branching(terminals, non_terminals)
    /\ UNCHANGED <<problem, nodes, open_nodes, solution, terminals, non_terminals,
                   high_cost_nodes, avg_depth, pc, limit, node, ret, path, calls,
                   popped_nodes>>

Next == SearchCall \/ SearchGoal \/ SearchExpand \/ SearchFail \/ AvgBranching

Spec == Init /\ [][Next]_vars

\* the plan, length and cost properties of the tree (cost is named tree_cost
\* here, cost being the domain's); they read self.solution
plan == get_plan(nodes, solution)

length == nodes[solution].depth

tree_cost == nodes[solution].cost

\* search() runs to completion once called: its loop is never suspended.
\* The fair behaviours are checked over the fixture networks and over the
\* generated networks of roads of length 1 searched for D.
FairInit ==
    Construct({p \in Problems :
                \/ p.connections \in FixtureConnections
                \/ (p.goal = "D" /\ \A i \in 1..Len(p.connections) : p.connections[i][3] = 1)})

FairSpec == FairInit /\ [][Next]_vars /\ WF_vars(SearchGoal \/ SearchExpand \/ SearchFail)

\* ------------------------------------------------- what the domain allows
Range(seq) == {seq[i] : i \in 1..Len(seq)}

\* the cities one action away from a city
Successors(city) == {result(city, a) : a \in Range(actions(connections, city))}

\* the cities within k actions of the initial city
RECURSIVE ReachableIn(_)
ReachableIn(k) ==
    IF k = 0 THEN {initial}
    ELSE LET R == ReachableIn(k - 1)
         IN  R \cup UNION {Successors(c) : c \in R}

Reachable == ReachableIn(Cardinality(Cities))

GoalReachable == \E c \in Reachable : satisfies(c, goal)

GoalReachableIn(k) == \E c \in ReachableIn(k) : satisfies(c, goal)

\* the fewest actions that lead from the initial city to the goal
MinEdges == CHOOSE k \in 0..Cardinality(Cities) :
                /\ GoalReachableIn(k)
                /\ \A j \in 0..(k - 1) : ~GoalReachableIn(j)

Min(S) == CHOOSE x \in S : \A y \in S : x <= y

\* the ways from the initial city to a goal city that visit no city twice,
\* each with the actions it takes (step costs are never negative, so no way
\* that visits a city twice is cheaper than all of these)
SimplePaths ==
    {p \in UNION {[1..k -> Cities] : k \in 1..Cardinality(Cities)} :
        /\ p[1] = initial
        /\ satisfies(p[Len(p)], goal)
        /\ \A i, j \in 1..Len(p) : p[i] = p[j] => i = j
        /\ \A i \in 1..(Len(p) - 1) :
              \E a \in Range(actions(connections, p[i])) : result(p[i], a) = p[i + 1]}

PlanOf(p) ==
    [i \in 1..(Len(p) - 1) |->
        CHOOSE a \in Range(actions(connections, p[i])) : result(p[i], a) = p[i + 1]]

\* the sum of domain.cost(path[i], plan[i])
RECURSIVE PathCost(_, _, _)
PathCost(p, pl, i) ==
    IF i > Len(pl) THEN 0
    ELSE cost(connections, p[i], pl[i]) + PathCost(p, pl, i + 1)

MinCost == Min({PathCost(p, PlanOf(p), 1) : p \in SimplePaths})

\* the key the strategy sorts the open list by
SortKey(n) ==
    IF strategy = "uniform" THEN nodes[n].cost
    ELSE IF strategy = "greedy" THEN nodes[n].heuristic
    ELSE nodes[n].cost + nodes[n].heuristic

\* no search comes near the cap on the number of nodes, so the cap removes
\* no behaviour of the program
NodesBelowCap == Len(nodes) < MaxNodes

\* ---------------------------------------------------------------- claims

\* C1: whenever search() has returned a path, the path starts at
\* problem.initial, ends in a state satisfying the goal, and every state of
\* it is followed by the result of an action applicable in it.
C1_PathValidity ==
    ret = "path" =>
        /\ path[1] = initial
        /\ satisfies(path[Len(path)], goal)
        /\ \A i \in 1..(Len(path) - 1) :
              \E a \in Range(actions(connections, path[i])) :
                  result(path[i], a) = path[i + 1]

\* a path of two actions or more has been returned
C1_Witness == ret = "path" /\ Len(path) >= 3

\* C2: with any of the five strategies, a first call of search() without a
\* limit returns None exactly when no state satisfying the goal is reachable
\* from problem.initial, and it then leaves open_nodes empty and solution
\* None.
C2_Completeness ==
    (pc = "idle" /\ calls = 1 /\ limit = <<>> /\ strategy \in Strategies) =>
        /\ ret \in {"path", "none"}
        /\ (ret = "none") <=> ~GoalReachable
        /\ ret = "none" => (open_nodes = <<>> /\ solution = 0)

\* a first unlimited search has exhausted a network of several nodes
C2_Witness ==
    /\ pc = "idle" /\ calls = 1 /\ limit = <<>> /\ strategy \in Strategies
    /\ ret = "none" /\ Len(nodes) >= 4 /\ ~GoalReachable

\* C3: every call of search() returns, whatever the strategy and the limit,
\* also in networks whose roads all run both ways; no node lies deeper than
\* the number of cities allows.
C3_Termination ==
    /\ (pc = "loop") ~> (pc = "idle" /\ ret \in {"path", "none"})
    /\ [](\A n \in 1..Len(nodes) : nodes[n].depth < Cardinality(Cities))

\* an unlimited search over a network with cycles has run to exhaustion
C3_Witness ==
    /\ pc = "idle" /\ ret = "none" /\ limit = <<>> /\ calls = 1
    /\ \E n \in 1..Len(nodes) : nodes[n].depth >= 2
    /\ \E c \in Reachable : initial \in Successors(c)

\* C4 as stated: under 'uniform' without a limit, every path search()
\* returns has the least total cost of all paths from problem.initial to a
\* goal state.
C4_AsStated ==
    (strategy = "uniform" /\ limit = <<>> /\ ret = "path") =>
        PathCost(path, get_plan(nodes, solution), 1) = MinCost

\* C4 on a first call: under 'uniform', the path returned by the first call of
\* search() on a tree, made without a limit, has the least total cost of all
\* paths from problem.initial to a goal state.
C4_UniformOptimal ==
    (strategy = "uniform" /\ limit = <<>> /\ ret = "path" /\ calls = 1) =>
        PathCost(path, get_plan(nodes, solution), 1) = MinCost

\* the first uniform search returned a path longer than the shortest one
C4_Witness ==
    /\ strategy = "uniform" /\ limit = <<>> /\ ret = "path" /\ calls = 1
    /\ Len(path) - 1 > MinEdges

\* C5: under 'uniform', 'greedy' and 'a*', the node a pop takes has a key
\* (cost, heuristic, cost + heuristic) no larger than that of any node the
\* pop leaves in open_nodes.
C5_StrategyOrdering ==
    [][(pc = "loop" /\ open_nodes # <<>> /\ strategy \in {"uniform", "greedy", "a*"}) =>
          /\ node' = Head(open_nodes)
          /\ \A i \in 2..Len(open_nodes) : SortKey(node') <= SortKey(open_nodes[i])]_vars

\* a sorted strategy has popped a node and left one of larger key behind
C5_Witness ==
    /\ strategy \in {"uniform", "greedy", "a*"}
    /\ ret = "path"
    /\ \E i \in 1..Len(open_nodes) : SortKey(node) < SortKey(open_nodes[i])
    /\ Len(open_nodes) >= 2

\* C6: once a search has succeeded, solution.cost is the sum of
\* domain.cost(path[i], plan[i]) over the plan; the root has cost 0.
C6_CostConsistency ==
    /\ nodes[1].cost = 0
    /\ solution # 0 =>
          nodes[solution].cost =
              PathCost(get_path(nodes, solution), get_plan(nodes, solution), 1)

\* a solution of two actions or more with steps of different cost
C6_Witness ==
    /\ solution # 0
    /\ nodes[solution].depth >= 2
    /\ nodes[solution].cost # 2 * nodes[nodes[solution].parent].cost

\* C7: once a search has succeeded, length = len(path) - 1 = len(plan), and
\* plan[i] leads from path[i] to path[i+1].
C7_LengthConsistency ==
    solution # 0 =>
        LET p == get_path(nodes, solution)
            pl == get_plan(nodes, solution)
        IN  /\ nodes[solution].depth = Len(p) - 1
            /\ Len(p) - 1 = Len(pl)
            /\ \A i \in 1..Len(pl) : result(p[i], pl[i]) = p[i + 1]

\* a solution three actions long
C7_Witness == solution # 0 /\ nodes[solution].depth = 3

\* C8: no state occurs twice on the chain from any node of the tree through
\* its parents to the root.
C8_CycleFreedom ==
    \A n \in 1..Len(nodes) :
        LET p == get_path(nodes, n)
        IN  \A i, j \in 1..Len(p) : p[i] = p[j] => i = j

\* a child leading back to an ancestor was dropped: a node of depth two was
\* expanded in a network whose roads run both ways
C8_Witness ==
    /\ node # 0
    /\ nodes[node].depth >= 2
    /\ non_terminals >= 3
    /\ \A m \in 1..Len(nodes) : nodes[m].parent # node

\* C9 as stated: in any call search(limit=L), no node deeper than L is
\* inserted into open_nodes, a returned path has at most L edges, and the
\* call returns None when no goal state lies within L edges of
\* problem.initial.
C9_AsStated ==
    [][limit' # <<>> =>
          /\ \A i \in 1..Len(open_nodes') :
                open_nodes'[i] \notin Range(open_nodes) =>
                    nodes'[open_nodes'[i]].depth <= limit'[1]
          /\ ret' = "path" => Len(path') - 1 <= limit'[1]
          /\ (pc = "loop" /\ pc' = "idle" /\ ~GoalReachableIn(limit'[1])) =>
                ret' = "none"]_vars

\* C9 on a first call: in any call search(limit=L), no node deeper than L is
\* inserted into open_nodes; when the call is the first one on its tree, a
\* returned path has at most L edges and the call returns None when no goal
\* state lies within L edges of problem.initial.
C9_DepthLimit ==
    [][limit' # <<>> =>
          /\ \A i \in 1..Len(open_nodes') :
                open_nodes'[i] \notin Range(open_nodes) =>
                    nodes'[open_nodes'[i]].depth <= limit'[1]
          /\ (calls' = 1 /\ ret' = "path") => Len(path') - 1 <= limit'[1]
          /\ (calls' = 1 /\ pc = "loop" /\ pc' = "idle" /\ ~GoalReachableIn(limit'[1])) =>
                ret' = "none"]_vars

\* limit=1 on the chain from A to D: children deeper than the limit were
\* dropped and the first call returned None
C9_Witness ==
    /\ connections = Chain /\ initial = "A" /\ goal = "D"
    /\ limit = <<1>> /\ calls = 1 /\ pc = "idle" /\ ret = "none"
    /\ non_terminals = 2 /\ Len(nodes) = 2

\* C10 as stated: under 'breadth' nodes are popped in non-decreasing depth
\* order, and every returned path has the fewest edges of all paths from
\* problem.initial to a goal state.
C10_AsStated ==
    [][strategy = "breadth" =>
          /\ (pc = "loop" /\ open_nodes # <<>> /\ node # 0) =>
                (node' = Head(open_nodes) /\ nodes[node].depth <= nodes'[node'].depth)
          /\ ret' = "path" => Len(path') - 1 = MinEdges]_vars

\* C10 on a first call: under 'breadth' nodes are popped in non-decreasing depth
\* order, and the path returned by the first call of search() on a tree has
\* the fewest edges of all paths from problem.initial to a goal state; on
\* the chain A-B(10)-C(20)-D(5) from A to D that call, made without a limit,
\* returns [A,B,C,D] with cost 35 and length 3.
C10_BreadthFirst ==
    [][strategy = "breadth" =>
          /\ (pc = "loop" /\ open_nodes # <<>> /\ node # 0) =>
                (node' = Head(open_nodes) /\ nodes[node].depth <= nodes'[node'].depth)
          /\ (calls' = 1 /\ ret' = "path") => Len(path') - 1 = MinEdges
          /\ (/\ connections = Chain /\ initial = "A" /\ goal = "D"
              /\ calls' = 1 /\ limit' = <<>> /\ pc = "loop" /\ pc' = "idle") =>
                /\ ret' = "path"
                /\ path' = <<"A", "B", "C", "D">>
                /\ nodes'[solution'].cost = 35
                /\ nodes'[solution'].depth = 3]_vars

\* the first breadth-first search returned the shorter of two ways to the
\* goal, after popping nodes of several depths
C10_Witness ==
    /\ strategy = "breadth" /\ calls = 1 /\ ret = "path"
    /\ Len(path) - 1 = MinEdges
    /\ Cardinality(SimplePaths) >= 2
    /\ \E p \in SimplePaths : Len(p) > Len(path)
    /\ non_terminals >= 2

\* C11: under 'depth', an expansion puts the surviving children at the head
\* of open_nodes in the order of domain.actions, ahead of every older node,
\* so the next pop takes the first surviving child of the node just
\* expanded; with the shortcut A-D listed first, the first search from A for
\* D that may go one edge deep returns [A, D].
C11_DepthFirst ==
    [][strategy = "depth" =>
          /\ (pc = "loop" /\ pc' = "loop" /\ open_nodes # <<>>) =>
                LET acts == actions(connections, nodes[Head(open_nodes)].state)
                    kept == SelectSeq(acts, LAMBDA a :
                                /\ ~in_parent(nodes, Head(open_nodes),
                                              result(nodes[Head(open_nodes)].state, a))
                                /\ (limit = <<>> \/ nodes[Head(open_nodes)].depth + 1 <= limit[1]))
                IN  /\ Len(open_nodes') = Len(kept) + Len(open_nodes) - 1
                    /\ \A i \in 1..Len(kept) :
                          /\ nodes'[open_nodes'[i]].parent = Head(open_nodes)
                          /\ nodes'[open_nodes'[i]].action = kept[i]
                          /\ open_nodes'[i] \notin Range(open_nodes)
                    /\ \A i \in 2..Len(open_nodes) :
                          open_nodes'[Len(kept) + i - 1] = open_nodes[i]
          /\ (/\ pc = "loop" /\ open_nodes # <<>> /\ node # 0
              /\ \E m \in 1..Len(nodes) : nodes[m].parent = node) =>
                /\ node' = Head(open_nodes)
                /\ nodes[node'].parent = node
                /\ \A m \in 1..Len(nodes) : nodes[m].parent = node => node' <= m
          /\ (/\ connections = ChainShortcut /\ initial = "A" /\ goal = "D"
              /\ calls' = 1 /\ limit' # <<0>> /\ pc = "loop" /\ pc' = "idle") =>
                (ret' = "path" /\ path' = <<"A", "D">>)]_vars

\* the first depth-first search took the shortcut listed first and left the
\* other child of A in open_nodes
C11_Witness ==
    /\ strategy = "depth" /\ connections = ChainShortcut /\ initial = "A" /\ goal = "D"
    /\ calls = 1 /\ ret = "path" /\ path = <<"A", "D">> /\ Len(open_nodes) = 1

\* the n-th node upwards from node n0 along the parent links
RECURSIVE Ancestor(_, _, _)
Ancestor(ns, n0, n) == IF n = 0 THEN n0 ELSE Ancestor(ns, ns[n0].parent, n - 1)

\* the states from the root down to node n, read off the parent links
RootToLeaf(ns, n) ==
    [i \in 1..(ns[n].depth + 1) |-> ns[Ancestor(ns, n, ns[n].depth + 1 - i)].state]

\* C12: when the node at the head of open_nodes holds the goal state, the
\* iteration that pops it creates no child and leaves non_terminals alone,
\* sets terminals to the number of nodes left in open_nodes plus one, sets
\* solution to the popped node, and returns the states from the root down to
\* that node.
C12_GoalCheck ==
    [][(pc = "loop" /\ open_nodes # <<>> /\ nodes[Head(open_nodes)].state = goal) =>
          /\ nodes' = nodes
          /\ non_terminals' = non_terminals
          /\ open_nodes' = Tail(open_nodes)
          /\ terminals' = Len(open_nodes') + 1
          /\ solution' = Head(open_nodes)
          /\ pc' = "idle"
          /\ ret' = "path"
          /\ path' = RootToLeaf(nodes, Head(open_nodes))
          /\ path'[1] = initial
          /\ path'[Len(path')] = goal]_vars

\* a goal node was popped below the root with other nodes still open
C12_Witness ==
    /\ pc = "idle" /\ ret = "path" /\ solution # 0
    /\ solution = node /\ nodes[solution].state = goal
    /\ Len(path) >= 3 /\ non_terminals >= 2
    /\ terminals = Len(open_nodes) + 1 /\ terminals >= 2

\* C13: once a goal node has been assigned to solution, no later step, a
\* further call of search() on the same tree included, changes solution,
\* terminals or non_terminals.
C13_AsStated ==
    [][solution # 0 => UNCHANGED <<solution, terminals, non_terminals>>]_vars

\* the number of nodes search() has popped and expanded so far
Expanded == Len(SelectSeq(popped_nodes, LAMBDA n : nodes[n].state # goal))

\* C14: when no goal state is reachable and search() has returned None,
\* non_terminals is the number of nodes expanded and terminals +
\* non_terminals is the number of nodes the tree holds.
C14_AsStated ==
    (pc = "idle" /\ ret = "none" /\ ~GoalReachable /\ strategy \in Strategies) =>
        /\ non_terminals = Expanded
        /\ terminals + non_terminals = Len(nodes)

\* the fields of the SearchTree object and of its nodes
tree == <<problem, nodes, open_nodes, solution, terminals, non_terminals,
          high_cost_nodes, avg_depth>>

\* C15: when problem.initial satisfies the goal, search() returns
\* [problem.initial] and leaves non_terminals = 0, terminals = 1, length = 0,
\* cost = 0 and plan = []; reading avg_branching then raises
\* ZeroDivisionError and changes nothing in the tree.
C15_AsStated ==
    [][initial = goal =>
          /\ (pc = "loop" /\ pc' = "idle") =>
                /\ ret' = "path" /\ path' = <<initial>>
                /\ non_terminals' = 0 /\ terminals' = 1
                /\ length' = 0 /\ tree_cost' = 0 /\ plan' = <<>>
          /\ (branching_read.raised = "unread" /\ branching_read'.raised # "unread") =>
                /\ branching_read'.raised = "ZeroDivisionError"
                /\ UNCHANGED tree]_vars

\* C15 on a first call: when problem.initial satisfies the goal, the first
\* call of search() returns [problem.initial] and leaves non_terminals = 0,
\* terminals = 1, length = 0, cost = 0 and plan = []; reading avg_branching
\* after any call then raises ZeroDivisionError and changes nothing in the
\* tree.
C15_GoalAtRoot ==
    [][initial = goal =>
          /\ (pc = "loop" /\ pc' = "idle" /\ calls' = 1) =>
                /\ ret' = "path" /\ path' = <<initial>>
                /\ non_terminals' = 0 /\ terminals' = 1
                /\ length' = 0 /\ tree_cost' = 0 /\ plan' = <<>>
          /\ (branching_read.raised = "unread" /\ branching_read'.raised # "unread") =>
                /\ branching_read'.raised = "ZeroDivisionError"
                /\ UNCHANGED tree]_vars

\* the goal was found at the root and avg_branching was read afterwards
C15_Witness ==
    /\ initial = goal /\ calls = 1 /\ ret = "path" /\ path = <<initial>>
    /\ connections # <<>>
    /\ branching_read.raised = "ZeroDivisionError"

\* the key the strategy gives node n of the nodes ns
KeyOf(ns, n) ==
    IF strategy = "uniform" THEN ns[n].cost
    ELSE IF strategy = "greedy" THEN ns[n].heuristic
    ELSE ns[n].cost + ns[n].heuristic

\* a place of x in seq, the only one when seq has no repetitions
Pos(seq, x) == CHOOSE i \in 1..Len(seq) : seq[i] = x

\* C16: under 'uniform', 'greedy' and 'a*', two nodes of equal key stand in
\* open_nodes after an insertion in the order they had before it: nodes that
\* were in open_nodes keep their order and stay ahead of new children, and
\* new children stand in the order they were created in, which is the order
\* of domain.actions.
C16_StableTies ==
    [][(/\ strategy \in {"uniform", "greedy", "a*"}
        /\ pc = "loop" /\ pc' = "loop" /\ open_nodes # <<>>) =>
          \A i, j \in 1..Len(open_nodes') :
              (i < j /\ KeyOf(nodes', open_nodes'[i]) = KeyOf(nodes', open_nodes'[j])) =>
                  /\ open_nodes'[i] \in Range(open_nodes) =>
                        /\ open_nodes'[j] \in Range(open_nodes) =>
                              Pos(open_nodes, open_nodes'[i]) < Pos(open_nodes, open_nodes'[j])
                  /\ open_nodes'[i] \notin Range(open_nodes) =>
                        /\ open_nodes'[j] \notin Range(open_nodes)
                        /\ open_nodes'[i] < open_nodes'[j]
                        /\ Pos(actions(connections, nodes'[node'].state), nodes'[open_nodes'[i]].action)
                             <= Pos(actions(connections, nodes'[node'].state),
                                    nodes'[open_nodes'[j]].action)]_vars

\* an insertion has left an older node ahead of a new child of equal key, and
\* two children of one node with equal key next to each other
C16_Witness ==
    /\ strategy \in {"uniform", "greedy", "a*"} /\ pc = "loop" /\ node # 0
    /\ \E i, j \in 1..Len(open_nodes) :
          /\ i < j /\ SortKey(open_nodes[i]) = SortKey(open_nodes[j])
          /\ nodes[open_nodes[i]].parent # node /\ nodes[open_nodes[j]].parent = node
    /\ \E i, j \in 1..Len(open_nodes) :
          /\ i < j /\ SortKey(open_nodes[i]) = SortKey(open_nodes[j])
          /\ nodes[open_nodes[i]].parent = node /\ nodes[open_nodes[j]].parent = node

\* the ways from city s to a goal city that visit no city twice
SimplePathsFrom(s) ==
    {p \in UNION {[1..k -> Cities] : k \in 1..Cardinality(Cities)} :
        /\ p[1] = s
        /\ satisfies(p[Len(p)], goal)
        /\ \A i, j \in 1..Len(p) : p[i] = p[j] => i = j
        /\ \A i \in 1..(Len(p) - 1) :
              \E a \in Range(actions(connections, p[i])) : result(p[i], a) = p[i + 1]}

\* the heuristic is 0 at the goal and never above the least cost of a way
\* from a city to the goal (a city with no way to the goal bounds nothing)
Admissible ==
    /\ heuristic(coordinates, goal, goal) = 0
    /\ \A s \in Cities :
          \A p \in SimplePathsFrom(s) :
              heuristic(coordinates, s, goal) <= PathCost(p, PlanOf(p), 1)

\* C17: under 'a*' with an admissible heuristic, every path search()
\* returns from a call without a limit has the least total cost of all paths
\* from problem.initial to a goal state.
C17_AsStated ==
    (strategy = "a*" /\ limit = <<>> /\ ret = "path" /\ Admissible) =>
        tree_cost = MinCost

\* C17 on a first call: under 'a*' with an admissible heuristic, the path
\* returned by the first call of search() on a tree, made without a limit,
\* has the least total cost of all paths from problem.initial to a goal
\* state.
C17_AStarOptimal ==
    (strategy = "a*" /\ limit = <<>> /\ ret = "path" /\ calls = 1 /\ Admissible) =>
        /\ tree_cost = MinCost
        /\ PathCost(path, plan, 1) = MinCost

\* the first a* search, guided by a heuristic that is not 0 everywhere, has
\* returned a cheapest path that is not the one with the fewest edges
C17_Witness ==
    /\ strategy = "a*" /\ limit = <<>> /\ ret = "path" /\ calls = 1 /\ Admissible
    /\ heuristic(coordinates, initial, goal) > 0
    /\ Len(path) - 1 > MinEdges
    /\ tree_cost = MinCost

\* C18: after a first call of search() that succeeded under one of the five
\* strategies, non_terminals is the number of nodes popped and expanded,
\* terminals + non_terminals is the number of nodes the tree holds (the root
\* and every surviving child), so terminals + non_terminals - 1 is the
\* number of edges of the tree, and avg_branching, where it is defined, is
\* that number over the number of expanded nodes to the nearest hundredth.
C18_NodeAccounting ==
    (pc = "idle" /\ calls = 1 /\ ret = "path" /\ strategy \in Strategies) =>
        /\ non_terminals = Expanded
        /\ Expanded = Len(popped_nodes) - 1
        /\ terminals + non_terminals = Len(nodes)
        /\ terminals + non_terminals - 1
             = Cardinality({n \in 1..Len(nodes) : nodes[n].parent # 0})
        /\ branching_read.raised = "none" =>
              LET edges == Cardinality({n \in 1..Len(nodes) : nodes[n].parent # 0})
                  diff == 100 * edges - branching_read.value * Expanded
              IN  2 * diff <= Expanded /\ -2 * diff <= Expanded
        /\ (branching_read.raised # "unread" /\ Expanded > 0) => branching_read.raised = "none"

\* a first search succeeded after expanding several nodes with nodes left
\* open, and avg_branching was read and is not a whole number
C18_Witness ==
    /\ pc = "idle" /\ calls = 1 /\ ret = "path" /\ strategy \in Strategies
    /\ non_terminals >= 3 /\ terminals >= 2
    /\ branching_read.raised = "none" /\ branching_read.value % 100 # 0

\* C19: with a strategy name add_to_open does not know, an expansion leaves
\* open_nodes as the pop left it, so no child is ever opened; unless the
\* root satisfies the goal, every call of search() returns None, and the
\* root is the only node ever expanded.
C19_UnknownStrategy ==
    [][strategy \notin Strategies =>
          /\ (pc = "loop" /\ pc' = "loop" /\ open_nodes # <<>>) =>
                /\ open_nodes' = Tail(open_nodes)
                /\ \A n \in (Len(nodes) + 1)..Len(nodes') : n \notin Range(open_nodes')
          /\ (pc = "loop" /\ pc' = "idle" /\ initial # goal) =>
                /\ ret' = "none"
                /\ popped_nodes' = <<1>>
                /\ non_terminals' = 1
                /\ open_nodes' = <<>>
                /\ solution' = 0]_vars

\* under an unknown strategy the first call returned None although the goal
\* is one road away: the children of the root were created and dropped
C19_Witness ==
    /\ strategy \in Unrecognised /\ pc = "idle" /\ calls = 1 /\ ret = "none"
    /\ GoalReachableIn(1) /\ initial # goal
    /\ Len(nodes) >= 3 /\ open_nodes = <<>> /\ non_terminals = 1

\* the largest accumulated cost among the nodes popped so far
MaxPoppedCost ==
    CHOOSE c \in {nodes[n].cost : n \in Range(popped_nodes)} :
        \A n \in Range(popped_nodes) : nodes[n].cost <= c

\* C20: once a node has been popped, high_cost_nodes lists exactly the
\* popped nodes whose cost is the largest among the popped nodes, each of
\* them once.
C20_AsStated ==
    popped_nodes # <<>> =>
        /\ Range(high_cost_nodes)
             = {n \in Range(popped_nodes) : nodes[n].cost = MaxPoppedCost}
        /\ \A i, j \in 1..Len(high_cost_nodes) :
              high_cost_nodes[i] = high_cost_nodes[j] => i = j

====
